---- MODULE Spec2Model ----
(***************************************************************************)
(* Model of the dataflow library: construction and static validation of   *)
(* an execution graph (NewExecutionGraph, analyze, convertStages,          *)
(* containsLoop, consistencyCheck) and the concurrent flow network that    *)
(* Run spawns from it (runStage workers, one-slot channels, totalExec and  *)
(* the Collapse closure).                                                  *)
(*                                                                         *)
(* Go values are encoded uniformly: a nil interface value or a nil error   *)
(* is the empty sequence <<>>, a non-nil integer value n is <<n>>, a       *)
(* non-nil error is a non-empty sequence of strings (fmt.Errorf with %w    *)
(* prepends the wrapping text to the wrapped error).                       *)
(***************************************************************************)
EXTENDS Integers, Sequences, FiniteSets, TLC

VARIABLES
    \* ---- validation (NewExecutionGraph / analyze) ----
    mode,       \* "stages": a NewExecutionGraph call; "graph": the analysis
                \* functions applied to a successor graph; "run": a network
    final,      \* argument of NewExecutionGraph: the final Stage
    stages,     \* argument of NewExecutionGraph: the variadic stages
    apc,        \* position inside NewExecutionGraph / analyze
    stageMap,   \* the local stageMap of NewExecutionGraph
    graph,      \* the local graph of analyze (successor adjacency lists)
    hasLoop,    \* result of containsLoop(graph)
    err,        \* error returned (<<>> is nil)
    \* ---- flow network (Run / runStage / totalExec / Collapse) ----
    g,          \* the ExecutionGraph the network is spawned from
    phase,      \* "built" (before Run), "running", "panicked"
    nodes,      \* label -> node{in, out}
    chans,      \* channel id -> [buf, closed]
    w,          \* label -> goroutine state of runStage
    cpc,        \* caller position in totalExec: "idle", "waiting", "done"
    carg,       \* argument of the current / last totalExec call
    cres,       \* either read from out by the last totalExec call
    torn,       \* the Collapse closure has been called
    egress,     \* envelopes put on out since the last submission
    execCount,  \* label -> computations run since the last submission
    failed,     \* <<label, error>> of computations that failed since then
    late,       \* the current totalExec call started after Collapse
    erred,      \* an earlier totalExec call on this network returned an error
    pending,    \* other goroutines inside totalExec, blocked on <-out
    \* ---- two flow networks spawned from one ExecutionGraph ----
    nets,       \* call of Run -> the network it returned
    heap,       \* the channels made so far, by address
    \* ---- record of the sends, kept by the counted actions ----
    subs,       \* the arguments sent on in so far, in the order of the sends
    sent        \* channel id -> number of envelopes sent on it so far

avars == <<mode, final, stages, apc, stageMap, graph, hasLoop, err>>
rvars == <<g, phase, nodes, chans, w, cpc, carg, cres, torn,
           egress, execCount, failed, late, erred, pending>>
vars == <<mode, final, stages, apc, stageMap, graph, hasLoop, err,
          g, phase, nodes, chans, w, cpc, carg, cres, torn,
          egress, execCount, failed, late, erred, pending, nets, heap,
          subs, sent>>
hvars == <<subs, sent>>
dvars == <<nets, heap, subs, sent>>

----------------------------------------------------------------------------
\* Terminal labels.
Input == "exec-input"
sink == "exec-sink"

\* Bounds of the validation inputs.
MaxStages == 2      \* number of variadic stages passed to NewExecutionGraph
MaxReq == 2         \* length of a requires list
MaxSucc == 2        \* length of a successor list of a directly given graph
MaxEdges == 4       \* number of dependency edges of an input

\* Labels used by the bounded inputs.
OrdLabels == {"b", "c"}
Labels == {Input, sink} \cup OrdLabels

Nil == <<>>

SeqsUpTo(S, n) == UNION {[1..k -> S] : k \in 0..n}

\* All iteration orders of a Go map with key set S.
RECURSIVE Perms(_)
Perms(S) ==
    IF S = {} THEN {<<>>}
    ELSE UNION {{<<x>> \o s : s \in Perms(S \ {x})} : x \in S}

\* Some iteration order of a map with key set S.
RECURSIVE AnyOrder(_)
AnyOrder(S) ==
    IF S = {} THEN <<>>
    ELSE LET x == CHOOSE y \in S : TRUE IN <<x>> \o AnyOrder(S \ {x})

Range(s) == {s[i] : i \in DOMAIN s}

\* Stage struct; exec is the name of the stage computation.
Stage(l, e, r) == [label |-> l, requires |-> r, exec |-> e]

\* NewStage keeps the caller's label; NewFinalStage labels the stage sink.
NewStage(l, e, r) == Stage(l, e, r)
NewFinalStage(e, r) == Stage(sink, e, r)
inputStage == Stage(Input, "id", <<>>)

----------------------------------------------------------------------------
\* convertStages: for node in range stages (iteration order ord), for every
\* predecessor in requires, graph[predecessor] = append(graph[predecessor], node).
\* Mutant of convertFold: a stage is recorded once under a predecessor,
\* however often its requires names it.
RECURSIVE convertFoldOnce(_, _, _, _)
convertFoldOnce(sm, ord, i, p) ==
    IF i > Len(ord) THEN <<>>
    ELSE LET node == ord[i]
         IN  (IF p \in Range(sm[node].requires) THEN <<node>> ELSE <<>>)
                \o convertFoldOnce(sm, ord, i + 1, p)

RECURSIVE convertFold(_, _, _, _)
convertFold(sm, ord, i, p) ==
    IF i > Len(ord) THEN <<>>
    ELSE LET node == ord[i]
             hits == SelectSeq(sm[node].requires, LAMBDA r : r = p)
         IN  [k \in 1..Len(hits) |-> node] \o convertFold(sm, ord, i + 1, p)

convertStages(sm, ord) ==
    LET keys == UNION {Range(sm[n].requires) : n \in DOMAIN sm}
    IN  [p \in keys |-> convertFold(sm, ord, 1, p)]

\* graph[n] of a Go map: the nil slice for a missing key.
Succ(gr, n) == IF n \in DOMAIN gr THEN gr[n] ELSE <<>>

\* Colours of containsLoop; 0 is the zero value read for a missing key.
white == 1
gray == 2
black == 3
ColorOf(colors, n) == IF n \in DOMAIN colors THEN colors[n] ELSE 0
SetColor(colors, n, c) ==
    [m \in DOMAIN colors \cup {n} |-> IF m = n THEN c ELSE colors[m]]

\* The dfs closure of containsLoop; returns the verdict and the colours map.
RECURSIVE loopDfs(_, _, _)
RECURSIVE loopDfsFrom(_, _, _, _)
loopDfsFrom(gr, n, k, colors) ==
    IF k > Len(Succ(gr, n))
    THEN [found |-> FALSE, colors |-> SetColor(colors, n, black)]
    ELSE LET successor == Succ(gr, n)[k]
             c == ColorOf(colors, successor)
         IN  IF c = gray THEN [found |-> TRUE, colors |-> colors]
             ELSE IF c = white
             THEN LET r == loopDfs(gr, successor, colors)
                  IN  IF r.found THEN r
                      ELSE loopDfsFrom(gr, n, k + 1, r.colors)
             ELSE loopDfsFrom(gr, n, k + 1, colors)

loopDfs(gr, n, colors) == loopDfsFrom(gr, n, 1, SetColor(colors, n, gray))

RECURSIVE loopTraverse(_, _, _, _)
loopTraverse(gr, ord, i, colors) ==
    IF i > Len(ord) THEN FALSE
    ELSE IF ColorOf(colors, ord[i]) = white
    THEN LET r == loopDfs(gr, ord[i], colors)
         IN  IF r.found THEN TRUE ELSE loopTraverse(gr, ord, i + 1, r.colors)
    ELSE loopTraverse(gr, ord, i + 1, colors)

\* Mutant of containsLoop: the traversal is seeded from the entry only.
containsLoopFromEntry(gr, ord) ==
    IF Input \in DOMAIN gr
    THEN loopDfs(gr, Input, [n \in DOMAIN gr |-> white]).found
    ELSE FALSE

\* containsLoop; ord is the order of the traversing range over the map.
containsLoop(gr, ord) ==
    loopTraverse(gr, ord, 1, [n \in DOMAIN gr |-> white])

\* The dfs closure of consistencyCheck: the error and the nodes marked visited.
\* It does not terminate on a cyclic graph; analyze calls it on acyclic ones.
RECURSIVE checkDfs(_, _, _)
RECURSIVE checkDfsFrom(_, _, _, _)
checkDfsFrom(gr, n, k, visited) ==
    IF k > Len(Succ(gr, n)) THEN [err |-> Nil, visited |-> visited]
    ELSE LET r == checkDfs(gr, Succ(gr, n)[k], visited)
         IN  IF r.err # Nil THEN r ELSE checkDfsFrom(gr, n, k + 1, r.visited)

checkDfs(gr, n, visited) ==
    IF Len(Succ(gr, n)) = 0 /\ n # sink
    THEN [err |-> <<"intermediate stage with no outputs", n>>,
          visited |-> visited \cup {n}]
    ELSE checkDfsFrom(gr, n, 1, visited \cup {n})

GraphNodes(gr) == DOMAIN gr \cup UNION {Range(gr[n]) : n \in DOMAIN gr}

\* The final range over visited: the first unvisited stage in iteration order.
RECURSIVE firstUnvisited(_, _, _)
firstUnvisited(ord, i, visited) ==
    IF i > Len(ord) THEN Nil
    ELSE IF ord[i] \notin visited THEN <<"unreachable stage", ord[i]>>
    ELSE firstUnvisited(ord, i + 1, visited)

\* Mutant of consistencyCheck: the final scan of visited is left out.
consistencyCheckNoScan(gr, ord) == checkDfs(gr, Input, {}).err

\* consistencyCheck; ord is the iteration order of the visited map, whose keys
\* are the keys and the successors of graph plus whatever dfs marked.
consistencyCheck(gr, ord) ==
    LET r == checkDfs(gr, Input, {})
    IN  IF r.err # Nil THEN r.err ELSE firstUnvisited(ord, 1, r.visited)

\* Mutant of VisitedKeys: only the successors are entered in visited before
\* the traversal, not the keys of graph.
VisitedSuccessorsOnly(gr) == UNION {Range(gr[n]) : n \in DOMAIN gr} \cup {Input}

VisitedKeys(gr) == GraphNodes(gr) \cup {Input}

\* Mutant of buildStageMap: the reserved labels are not checked.
RECURSIVE buildStageMapUnchecked(_, _, _)
buildStageMapUnchecked(sm, sts, i) ==
    IF i > Len(sts) THEN [err |-> Nil, stages |-> sm]
    ELSE buildStageMapUnchecked(
             [l \in DOMAIN sm \cup {sts[i].label} |->
                 IF l = sts[i].label THEN sts[i] ELSE sm[l]],
             sts, i + 1)

\* The range over stages in NewExecutionGraph: a label equal to Input or sink
\* returns the error at once; otherwise a later stage overwrites an earlier
\* one with the same label.
RECURSIVE buildStageMap(_, _, _)
buildStageMap(sm, sts, i) ==
    IF i > Len(sts) THEN [err |-> Nil, stages |-> sm]
    ELSE IF sts[i].label = Input \/ sts[i].label = sink
    THEN [err |-> <<"interfering with internal stage", sts[i].label>>,
          stages |-> Nil]
    ELSE buildStageMap(
             [l \in DOMAIN sm \cup {sts[i].label} |->
                 IF l = sts[i].label THEN sts[i] ELSE sm[l]],
             sts, i + 1)

InitialStageMap(fin) ==
    [l \in {Input, sink} |-> IF l = Input THEN inputStage ELSE fin]

\* analyze, with the three map iteration orders it depends on.
analyze(sm, o1, o2, o3) ==
    IF Input \notin DOMAIN sm THEN <<"data input stage not found">>
    ELSE IF sink \notin DOMAIN sm THEN <<"final execution stage not found">>
    ELSE LET gr == convertStages(sm, o1)
         IN  IF containsLoop(gr, o2) THEN <<"execution graph contains loops">>
             ELSE consistencyCheck(gr, o3)

\* NewExecutionGraph under one iteration order per range loop: the returned
\* graph (Nil for a nil pointer) and the error.
NewExecutionGraph(fin, sts) ==
    LET b == buildStageMap(InitialStageMap(fin), sts, 1)
    IN  IF b.err # Nil THEN [graph |-> Nil, err |-> b.err]
        ELSE LET gr == convertStages(b.stages, AnyOrder(DOMAIN b.stages))
                 e == analyze(b.stages, AnyOrder(DOMAIN b.stages),
                              AnyOrder(DOMAIN gr), AnyOrder(VisitedKeys(gr)))
             IN  IF e # Nil THEN [graph |-> Nil, err |-> e]
                 ELSE [graph |-> b.stages, err |-> Nil]

----------------------------------------------------------------------------
\* Validation as a state machine: one NewExecutionGraph call (mode "stages"),
\* the analysis functions applied to a given successor graph (mode "graph")
\* or convertStages applied to a given stage map (mode "map"), every range
\* over a map taking any iteration order.

RequiresLists == SeqsUpTo(Labels, MaxReq)
StageInputs == {NewStage(l, "id", r) : l \in Labels, r \in RequiresLists}
FinalInputs == {NewFinalStage("add", r) : r \in RequiresLists}
GraphInputs ==
    UNION {[K -> SeqsUpTo(Labels, MaxSucc)] : K \in SUBSET Labels}
\* A stage map as Test_convertStages builds them: the stages labelled K,
\* stage n requiring r[n]; K may be empty.
StageMapOf(K, r) == [n \in K |-> NewStage(n, "id", r[n])]

RECURSIVE SumLen(_, _)
SumLen(f, D) ==
    IF D = {} THEN 0
    ELSE LET d == CHOOSE x \in D : TRUE IN Len(f[d]) + SumLen(f, D \ {d})

GraphEdges(gr) == SumLen(gr, DOMAIN gr)
StageEdges(fin, sts) ==
    Len(fin.requires) + SumLen([i \in DOMAIN sts |-> sts[i].requires], DOMAIN sts)

IdleNetwork ==
    /\ g = Nil /\ phase = "none" /\ nodes = Nil /\ chans = Nil
    /\ w = Nil /\ cpc = "idle" /\ carg = Nil /\ cres = Nil /\ torn = FALSE
    /\ egress = 0 /\ execCount = Nil /\ failed = {}
    /\ late = FALSE /\ erred = FALSE /\ pending = 0
    /\ nets = Nil /\ heap = Nil
    /\ subs = <<>> /\ sent = Nil

InitAnalysis ==
    /\ \/ /\ mode = "stages"
          /\ final \in FinalInputs
          /\ stages \in SeqsUpTo(StageInputs, MaxStages)
          /\ StageEdges(final, stages) <= MaxEdges
          /\ graph = Nil
          /\ apc = "new"
          /\ stageMap = Nil
       \/ /\ mode = "graph"
          /\ final = Nil
          /\ stages = Nil
          /\ graph \in GraphInputs
          /\ GraphEdges(graph) <= MaxEdges
          /\ apc = "loop"
          /\ stageMap = Nil
       \/ /\ mode = "map"
          /\ final = Nil
          /\ stages = Nil
          /\ \E K \in SUBSET Labels :
                /\ Cardinality(K) <= MaxStages
                /\ \E r \in [K -> RequiresLists] :
                      /\ GraphEdges(r) <= MaxEdges
                      /\ stageMap = StageMapOf(K, r)
          /\ graph = Nil
          /\ apc = "convert"
    /\ hasLoop = FALSE
    /\ err = Nil
    /\ IdleNetwork

\* NewExecutionGraph, lines 33-44: build stageMap or return the collision.
BuildStageMap ==
    /\ mode = "stages" /\ apc = "new"
    /\ LET b == buildStageMap(InitialStageMap(final), stages, 1)
       IN  /\ stageMap' = b.stages
           /\ err' = b.err
           /\ apc' = IF b.err # Nil THEN "done" ELSE "analyze"
    /\ UNCHANGED <<mode, final, stages, graph, hasLoop, rvars, dvars>>

\* analyze, lines 155-161: terminal presence, then convertStages.
ConvertStages ==
    /\ mode = "stages" /\ apc = "analyze"
    /\ IF Input \notin DOMAIN stageMap
       THEN err' = <<"data input stage not found">> /\ apc' = "done"
                /\ UNCHANGED graph
       ELSE IF sink \notin DOMAIN stageMap
       THEN err' = <<"final execution stage not found">> /\ apc' = "done"
                /\ UNCHANGED graph
       ELSE \E ord \in Perms(DOMAIN stageMap) :
                /\ graph' = convertStages(stageMap, ord)
                /\ apc' = "loop"
                /\ UNCHANGED err
    /\ UNCHANGED <<mode, final, stages, stageMap, hasLoop, rvars, dvars>>

\* convertStages(stages) called on its own, as Test_convertStages does.
ConvertMap ==
    /\ mode = "map" /\ apc = "convert"
    /\ \E ord \in Perms(DOMAIN stageMap) :
          graph' = convertStages(stageMap, ord)
    /\ apc' = "converted"
    /\ UNCHANGED <<mode, final, stages, stageMap, hasLoop, err, rvars, dvars>>

\* containsLoop(graph); analyze returns the loop error when it is true.
ContainsLoop ==
    /\ apc = "loop"
    /\ \E ord \in Perms(DOMAIN graph) :
          LET found == containsLoop(graph, ord)
          IN  /\ hasLoop' = found
              /\ apc' = IF found THEN "done" ELSE "check"
              /\ err' = IF found /\ mode = "stages"
                        THEN <<"execution graph contains loops">> ELSE err
    /\ UNCHANGED <<mode, final, stages, stageMap, graph, rvars, dvars>>

\* consistencyCheck(graph); on nil NewExecutionGraph returns the graph.
ConsistencyCheck ==
    /\ apc = "check"
    /\ \E ord \in Perms(VisitedKeys(graph)) :
          LET e == consistencyCheck(graph, ord)
          IN  /\ err' = e
              /\ g' = IF e = Nil /\ mode = "stages" THEN stageMap ELSE Nil
    /\ apc' = "done"
    /\ UNCHANGED <<mode, final, stages, stageMap, graph, hasLoop>>
    /\ UNCHANGED <<phase, nodes, chans, w, cpc, carg, cres, torn,
                   egress, execCount, failed, late, erred, pending, dvars>>

NextAnalysis ==
    \/ BuildStageMap
    \/ ConvertStages
    \/ ConvertMap
    \/ ContainsLoop
    \/ ConsistencyCheck

SpecAnalysis == InitAnalysis /\ [][NextAnalysis]_vars

----------------------------------------------------------------------------
\* The flow network.

\* Bounds of the network runs.
MaxExec == 2        \* execCount saturates here

\* Arguments passed to totalExec (those of TestComputation).
Args == {1, 2, -4, 0}

\* either{}: the zero value.
Either(v, e) == [Value |-> v, Err |-> e]
ZeroEither == Either(Nil, Nil)

\* Stage computations (StageExecution values), by name: those of
\* testExecution ("dec", "add2", "add5", "mul", "add") with their argument
\* checks, inputStage's "id", and others a caller may supply: "sub", which is
\* not symmetric in its arguments, "const", which takes none, and for each of
\* them the variant (prefix "s") that fails on a negative first argument;
\* "pdec" also fails on a negative argument but returns its value along with
\* the error, as the type StageExecution allows.
StrictOf ==
    [sdec |-> "dec", sadd2 |-> "add2", sadd5 |-> "add5", smul |-> "mul",
     sadd |-> "add", ssub |-> "sub"]
Strict(e) == e \in DOMAIN StrictOf
Partial(e) == e = "pdec"
Base(e) == IF Strict(e) THEN StrictOf[e] ELSE IF Partial(e) THEN "dec" ELSE e

Arity(e) ==
    CASE Base(e) \in {"dec", "add2", "add5"} -> 1
      [] Base(e) \in {"mul", "add", "sub"} -> 2
      [] OTHER -> 0

Op(e, a) ==
    CASE Base(e) = "dec" -> a[1][1] - 1
      [] Base(e) = "add2" -> a[1][1] + 2
      [] Base(e) = "add5" -> a[1][1] + 5
      [] Base(e) = "mul" -> a[1][1] * a[2][1]
      [] Base(e) = "add" -> a[1][1] + a[2][1]
      [] Base(e) = "sub" -> a[1][1] - a[2][1]
      [] OTHER -> 7

\* stage.exec(args...): the value and the error returned.
Apply(e, a) ==
    IF e = "id" THEN Either(a[1], Nil)
    ELSE IF Len(a) # Arity(e) THEN Either(Nil, <<"unexpected arguments">>)
    ELSE IF \E k \in DOMAIN a : a[k] = Nil THEN Either(Nil, <<"bad argument">>)
    ELSE IF Strict(e) /\ Len(a) > 0 /\ a[1][1] < 0
    THEN Either(Nil, <<"negative argument">>)
    ELSE IF Partial(e) /\ a[1][1] < 0
    THEN Either(<<Op(e, a)>>, <<"negative argument">>)
    ELSE Either(<<Op(e, a)>>, Nil)

\* fmt.Errorf("stage %s: %w", stage.label, err)
Wrap(l, e) == <<"stage", l>> \o e

\* Stage sets handed to NewExecutionGraph to obtain the graphs that are run.
TestStages ==
    [final |-> NewFinalStage("add", <<"b", "e">>),
     stages |-> << NewStage("b", "dec", <<Input>>),
                   NewStage("c", "add2", <<Input>>),
                   NewStage("d", "add5", <<Input>>),
                   NewStage("e", "mul", <<"c", "d">>) >>]
FailingStages ==
    [final |-> NewFinalStage("add", <<"b", "e">>),
     stages |-> << NewStage("b", "dec", <<Input>>),
                   NewStage("c", "sadd2", <<Input>>),
                   NewStage("d", "add5", <<Input>>),
                   NewStage("e", "mul", <<"c", "d">>) >>]
RepeatedStages ==
    [final |-> NewFinalStage("ssub", <<"e", "b">>),
     stages |-> << NewStage("b", "sdec", <<Input>>),
                   NewStage("e", "smul", <<"b", "b">>) >>]
JoinStages ==
    [final |-> NewFinalStage("sub", <<"c", "d">>),
     stages |-> << NewStage("c", "sadd2", <<Input>>),
                   NewStage("d", "sadd5", <<Input>>) >>]
LoneStages ==
    [final |-> NewFinalStage("ssub", <<"c", Input>>),
     stages |-> << NewStage("c", "add2", <<Input>>),
                   NewStage("x", "const", <<>>) >>]
PartialStages ==
    [final |-> NewFinalStage("pdec", <<"c">>),
     stages |-> << NewStage("c", "pdec", <<Input>>) >>]
LoopStages ==
    [final |-> NewFinalStage("add", <<"b", "c">>),
     stages |-> << NewStage("b", "dec", <<"c">>),
                   NewStage("c", "add2", <<"b">>) >>]
Candidates ==
    {TestStages, FailingStages, RepeatedStages, JoinStages, LoneStages,
     PartialStages, LoopStages}

\* Mutant of PipeCap: channels of capacity two.
PipeCapTwo == 1 + 1

\* make(chan either, 1): the capacity of every channel.
PipeCap == 1

\* Channels: the two external ones, and the one Run makes for the k-th
\* requires entry of stage n.
InCh == <<"in", 0>>
OutCh == <<"out", 0>>
Pipe(n, k) == <<n, k>>
ChanIds(gr) ==
    {InCh, OutCh} \cup
    UNION {{Pipe(n, k) : k \in 1..Len(gr[n].requires)} : n \in DOMAIN gr}

\* Mutant of wireOut: a stage named twice in one requires list gets a single
\* outbound channel for that dependent.
RECURSIVE wireOutOnce(_, _, _, _)
wireOutOnce(gr, ord, i, l) ==
    IF i > Len(ord) THEN <<>>
    ELSE LET n == ord[i]
             ks == SelectSeq([k \in 1..Len(gr[n].requires) |-> k],
                             LAMBDA k : gr[n].requires[k] = l)
         IN  (IF ks = <<>> THEN <<>> ELSE <<Pipe(n, ks[1])>>)
                \o wireOutOnce(gr, ord, i + 1, l)

\* The wiring loop of Run under iteration order ord: out of stage l.
RECURSIVE wireOut(_, _, _, _)
wireOut(gr, ord, i, l) ==
    IF i > Len(ord) THEN <<>>
    ELSE LET n == ord[i]
             ks == SelectSeq([k \in 1..Len(gr[n].requires) |-> k],
                             LAMBDA k : gr[n].requires[k] = l)
         IN  [j \in 1..Len(ks) |-> Pipe(n, ks[j])] \o wireOut(gr, ord, i + 1, l)

\* Mutant of wireIn: the inbound list is built in the reverse of requires.
wireInReversed(gr, l) ==
    [k \in 1..Len(gr[l].requires) |-> Pipe(l, Len(gr[l].requires) + 1 - k)]

wireIn(gr, l) == [k \in 1..Len(gr[l].requires) |-> Pipe(l, k)]

\* Mutant of wire: the outbound list of the sink node is not bound to out.
wireNoEgress(gr, ord) ==
    [l \in DOMAIN gr |->
        [in |-> IF l = Input THEN <<InCh>> ELSE wireIn(gr, l),
         out |-> wireOut(gr, ord, 1, l)]]

\* The nodes of Run after wiring and binding of the external channels.
wire(gr, ord) ==
    [l \in DOMAIN gr |->
        [in |-> IF l = Input THEN <<InCh>> ELSE wireIn(gr, l),
         out |-> IF l = sink THEN <<OutCh>> ELSE wireOut(gr, ord, 1, l)]]

\* runStage at its entry.
startStage(n) ==
    [pc |-> "recv", i |-> 1, j |-> 1, turn |-> 0,
     args |-> [k \in 1..Len(n.in) |-> Nil],
     executionErr |-> Nil, result |-> ZeroEither]

Init ==
    /\ mode = "run"
    /\ \E c \in Candidates :
          LET r == NewExecutionGraph(c.final, c.stages)
          IN  /\ r.err = Nil
              /\ final = c.final
              /\ stages = c.stages
              /\ g = r.graph
    /\ apc = "done" /\ stageMap = g /\ graph = Nil /\ hasLoop = FALSE /\ err = Nil
    /\ phase = "built"
    /\ nodes = Nil /\ chans = Nil /\ w = Nil
    /\ cpc = "idle" /\ carg = Nil /\ cres = ZeroEither
    /\ torn = FALSE /\ late = FALSE /\ erred = FALSE /\ pending = 0
    /\ egress = 0
    /\ execCount = [l \in DOMAIN g |-> 0]
    /\ failed = {}
    /\ nets = Nil /\ heap = Nil
    /\ subs = <<>> /\ sent = [c \in ChanIds(g) |-> 0]

\* ExecutionGraph.Run: make the nodes, wire them, start one runStage each.
Run ==
    /\ mode = "run" /\ phase = "built"
    /\ \E ord \in Perms(DOMAIN g) :
          /\ nodes' = wire(g, ord)
          /\ w' = [l \in DOMAIN g |-> startStage(wire(g, ord)[l])]
    /\ chans' = [c \in ChanIds(g) |-> [buf |-> <<>>, closed |-> FALSE]]
    /\ phase' = "running"
    /\ UNCHANGED <<avars, dvars, g, cpc, carg, cres, torn, egress,
                   execCount, failed, late, erred, pending>>

Running == mode = "run" /\ phase = "running"

\* Mutant of NextRound: executionErr is declared outside the loop and keeps
\* the error of an earlier round.
NextRoundKeepErr(n, s) ==
    [s EXCEPT !.pc = "recv", !.i = 1, !.j = 1,
              !.args = [k \in 1..Len(n.in) |-> Nil],
              !.result = ZeroEither]

\* The loop restarts: the locals of the loop body are fresh. args outlives
\* the round in the source, but every slot is written again before the next
\* computation reads it, so the model clears it here.
NextRound(n, s) ==
    [s EXCEPT !.pc = "recv", !.i = 1, !.j = 1,
              !.args = [k \in 1..Len(n.in) |-> Nil],
              !.executionErr = Nil, !.result = ZeroEither]

Bump(n) == IF n < MaxExec THEN n + 1 ELSE MaxExec

\* Mutant of roundResult: the error of an input is wrapped with the label of
\* the stage that forwards it.
roundResultRewrap(l, s) ==
    LET r == Apply(g[l].exec, s.args)
        e == IF s.executionErr # Nil THEN s.executionErr ELSE r.Err
    IN  Either(IF s.executionErr # Nil THEN Nil ELSE r.Value,
               IF e # Nil THEN Wrap(l, e) ELSE Nil)

\* The either a round sends: the error of an input unchanged and without a
\* value, else the computation's value and its error wrapped with the label.
roundResult(l, s) ==
    IF s.executionErr # Nil THEN Either(Nil, s.executionErr)
    ELSE LET r == Apply(g[l].exec, s.args)
         IN  Either(r.Value, IF r.Err # Nil THEN Wrap(l, r.Err) ELSE Nil)

\* runStage, lines 120-136, which touch nothing but the goroutine's locals:
\* with all arguments in, the round's either is ready to be sent (a stage
\* without successors starts the next round).
evaluated(l, s) ==
    LET t == [s EXCEPT !.result = roundResult(l, s), !.pc = "send", !.j = 1]
    IN  IF Len(nodes[l].out) = 0 THEN NextRound(nodes[l], t) ELSE t

\* Mutant of Executed: the computation is run inside the fan-out loop, once
\* for every successor.
ExecutedPerSuccessor(l, s) ==
    IF s.executionErr # Nil
    THEN UNCHANGED <<execCount, failed>>
    ELSE LET r == Apply(g[l].exec, s.args)
             n == IF Len(nodes[l].out) > 1 THEN MaxExec ELSE Bump(execCount[l])
         IN  /\ execCount' = [execCount EXCEPT ![l] = n]
             /\ failed' = IF r.Err # Nil THEN failed \cup {<<l, r.Err>>}
                          ELSE failed

\* Bookkeeping of the computation that lines 131-134 run when no input
\* carried an error.
Executed(l, s) ==
    IF s.executionErr # Nil
    THEN UNCHANGED <<execCount, failed>>
    ELSE LET r == Apply(g[l].exec, s.args)
         IN  /\ execCount' = [execCount EXCEPT ![l] = Bump(@)]
             /\ failed' = IF r.Err # Nil THEN failed \cup {<<l, r.Err>>}
                          ELSE failed

\* Mutant of Recv: the inbound channels are read from the last to the first.
RecvBackwards(l) ==
    /\ Running
    /\ l \in DOMAIN w
    /\ w[l].pc = "recv" /\ w[l].i <= Len(nodes[l].in)
    /\ LET ch == nodes[l].in[Len(nodes[l].in) + 1 - w[l].i]
       IN  \/ /\ chans[ch].buf # <<>>
              /\ LET arg == Head(chans[ch].buf)
                     s == [w[l] EXCEPT !.args[w[l].i] = arg.Value,
                                       !.executionErr =
                                           IF arg.Err # Nil THEN arg.Err ELSE @,
                                       !.i = @ + 1]
                 IN  IF s.i > Len(nodes[l].in)
                     THEN /\ w' = [w EXCEPT ![l] = evaluated(l, s)]
                          /\ Executed(l, s)
                     ELSE /\ w' = [w EXCEPT ![l] = s]
                          /\ UNCHANGED <<execCount, failed>>
              /\ chans' = [chans EXCEPT ![ch].buf = Tail(@)]
           \/ /\ chans[ch].buf = <<>> /\ chans[ch].closed
              /\ w' = [w EXCEPT ![l].pc = IF Len(nodes[l].out) = 0
                                          THEN "returned" ELSE "close",
                                ![l].j = 1]
              /\ UNCHANGED <<chans, execCount, failed>>
    /\ UNCHANGED <<avars, dvars, g, phase, nodes, cpc, carg, cres, torn,
                   egress, late, erred, pending>>

\* Mutant of Recv: the first error of a round is kept.
RecvFirstError(l) ==
    /\ Running
    /\ l \in DOMAIN w
    /\ w[l].pc = "recv" /\ w[l].i <= Len(nodes[l].in)
    /\ LET ch == nodes[l].in[w[l].i]
       IN  \/ /\ chans[ch].buf # <<>>
              /\ LET arg == Head(chans[ch].buf)
                     s == [w[l] EXCEPT !.args[w[l].i] = arg.Value,
                                       !.executionErr =
                                           IF arg.Err # Nil /\ @ = Nil
                                           THEN arg.Err ELSE @,
                                       !.i = @ + 1]
                 IN  IF s.i > Len(nodes[l].in)
                     THEN /\ w' = [w EXCEPT ![l] = evaluated(l, s)]
                          /\ Executed(l, s)
                     ELSE /\ w' = [w EXCEPT ![l] = s]
                          /\ UNCHANGED <<execCount, failed>>
              /\ chans' = [chans EXCEPT ![ch].buf = Tail(@)]
           \/ /\ chans[ch].buf = <<>> /\ chans[ch].closed
              /\ w' = [w EXCEPT ![l].pc = IF Len(nodes[l].out) = 0
                                          THEN "returned" ELSE "close",
                                ![l].j = 1]
              /\ UNCHANGED <<chans, execCount, failed>>
    /\ UNCHANGED <<avars, dvars, g, phase, nodes, cpc, carg, cres, torn,
                   egress, late, erred, pending>>

\* Mutant of Recv: the receive loop is left at the first either that carries
\* an error, the remaining inbound channels are not read in that round.
RecvStopAtError(l) ==
    /\ Running
    /\ l \in DOMAIN w
    /\ w[l].pc = "recv" /\ w[l].i <= Len(nodes[l].in)
    /\ LET ch == nodes[l].in[w[l].i]
       IN  \/ /\ chans[ch].buf # <<>>
              /\ LET arg == Head(chans[ch].buf)
                     s == [w[l] EXCEPT !.args[w[l].i] = arg.Value,
                                       !.executionErr =
                                           IF arg.Err # Nil THEN arg.Err ELSE @,
                                       !.i = @ + 1]
                 IN  IF s.i > Len(nodes[l].in) \/ arg.Err # Nil
                     THEN /\ w' = [w EXCEPT ![l] = evaluated(l, s)]
                          /\ Executed(l, s)
                     ELSE /\ w' = [w EXCEPT ![l] = s]
                          /\ UNCHANGED <<execCount, failed>>
              /\ chans' = [chans EXCEPT ![ch].buf = Tail(@)]
           \/ /\ chans[ch].buf = <<>> /\ chans[ch].closed
              /\ w' = [w EXCEPT ![l].pc = IF Len(nodes[l].out) = 0
                                          THEN "returned" ELSE "close",
                                ![l].j = 1]
              /\ UNCHANGED <<chans, execCount, failed>>
    /\ UNCHANGED <<avars, dvars, g, phase, nodes, cpc, carg, cres, torn,
                   egress, late, erred, pending>>

\* Mutant of Recv: a closed inbound channel ends the worker even while an
\* either is still buffered in it.
RecvClosedFirst(l) ==
    /\ Running
    /\ l \in DOMAIN w
    /\ w[l].pc = "recv" /\ w[l].i <= Len(nodes[l].in)
    /\ LET ch == nodes[l].in[w[l].i]
       IN  \/ /\ chans[ch].buf # <<>> /\ ~chans[ch].closed
              /\ LET arg == Head(chans[ch].buf)
                     s == [w[l] EXCEPT !.args[w[l].i] = arg.Value,
                                       !.executionErr =
                                           IF arg.Err # Nil THEN arg.Err ELSE @,
                                       !.i = @ + 1]
                 IN  IF s.i > Len(nodes[l].in)
                     THEN /\ w' = [w EXCEPT ![l] = evaluated(l, s)]
                          /\ Executed(l, s)
                     ELSE /\ w' = [w EXCEPT ![l] = s]
                          /\ UNCHANGED <<execCount, failed>>
              /\ chans' = [chans EXCEPT ![ch].buf = Tail(@)]
           \/ /\ chans[ch].closed
              /\ w' = [w EXCEPT ![l].pc = IF Len(nodes[l].out) = 0
                                          THEN "returned" ELSE "close",
                                ![l].j = 1]
              /\ UNCHANGED <<chans, execCount, failed>>
    /\ UNCHANGED <<avars, dvars, g, phase, nodes, cpc, carg, cres, torn,
                   egress, late, erred, pending>>

\* runStage, lines 102-136: receive from stage.in[i]; a closed and empty
\* channel starts the closing of the successors; after the last argument the
\* round is evaluated.
Recv(l) ==
    /\ Running
    /\ l \in DOMAIN w
    /\ w[l].pc = "recv" /\ w[l].i <= Len(nodes[l].in)
    /\ LET ch == nodes[l].in[w[l].i]
       IN  \/ /\ chans[ch].buf # <<>>
              /\ LET arg == Head(chans[ch].buf)
                     s == [w[l] EXCEPT !.args[w[l].i] = arg.Value,
                                       !.executionErr =
                                           IF arg.Err # Nil THEN arg.Err ELSE @,
                                       !.i = @ + 1]
                 IN  IF s.i > Len(nodes[l].in)
                     THEN /\ w' = [w EXCEPT ![l] = evaluated(l, s)]
                          /\ Executed(l, s)
                     ELSE /\ w' = [w EXCEPT ![l] = s]
                          /\ UNCHANGED <<execCount, failed>>
              /\ chans' = [chans EXCEPT ![ch].buf = Tail(@)]
           \/ /\ chans[ch].buf = <<>> /\ chans[ch].closed
              /\ w' = [w EXCEPT ![l].pc = IF Len(nodes[l].out) = 0
                                          THEN "returned" ELSE "close",
                                ![l].j = 1]
              /\ UNCHANGED <<chans, execCount, failed>>
    /\ UNCHANGED <<avars, dvars, g, phase, nodes, cpc, carg, cres, torn,
                   egress, late, erred, pending>>

\* runStage of a stage without inbound channels: the receive loop is empty
\* and every round goes straight to the computation; turn is the parity of
\* these rounds.
Spin(l) ==
    /\ Running
    /\ l \in DOMAIN w
    /\ w[l].pc = "recv" /\ Len(nodes[l].in) = 0
    /\ w' = [w EXCEPT ![l] = [evaluated(l, w[l]) EXCEPT !.turn = 1 - @]]
    /\ Executed(l, w[l])
    /\ UNCHANGED <<avars, dvars, g, phase, nodes, chans, cpc, carg, cres,
                   torn, egress, late, erred, pending>>

\* runStage, lines 123-125 and 139-141: send the round's either on
\* stage.out[j]; a send on a closed channel panics.
SendStep(l) ==
    /\ Running
    /\ l \in DOMAIN w
    /\ w[l].pc = "send" /\ w[l].j <= Len(nodes[l].out)
    /\ LET ch == nodes[l].out[w[l].j]
       IN  IF chans[ch].closed
           THEN /\ phase' = "panicked"
                /\ UNCHANGED <<chans, w, egress>>
           ELSE /\ Len(chans[ch].buf) < PipeCap
                /\ chans' = [chans EXCEPT ![ch].buf = Append(@, w[l].result)]
                /\ w' = [w EXCEPT ![l] = IF w[l].j = Len(nodes[l].out)
                                         THEN NextRound(nodes[l], @)
                                         ELSE [@ EXCEPT !.j = @ + 1]]
                /\ egress' = IF ch = OutCh THEN Bump(egress) ELSE egress
                /\ UNCHANGED phase
    /\ UNCHANGED <<avars, nets, heap, g, nodes, cpc, carg, cres, torn,
                   execCount, failed, late, erred, pending>>

Send(l) == SendStep(l) /\ UNCHANGED hvars

\* Mutant of Close: after closing its successors the worker goes on with the
\* next round instead of returning.
CloseAndLoop(l) ==
    /\ Running
    /\ l \in DOMAIN w
    /\ w[l].pc = "close" /\ w[l].j <= Len(nodes[l].out)
    /\ LET ch == nodes[l].out[w[l].j]
       IN  IF chans[ch].closed
           THEN /\ phase' = "panicked"
                /\ UNCHANGED <<chans, w>>
           ELSE /\ chans' = [chans EXCEPT ![ch].closed = TRUE]
                /\ w' = [w EXCEPT ![l].pc = IF w[l].j = Len(nodes[l].out)
                                            THEN "recv" ELSE @,
                                  ![l].j = @ + 1]
                /\ UNCHANGED phase
    /\ UNCHANGED <<avars, dvars, g, nodes, cpc, carg, cres, torn,
                   egress, execCount, failed, late, erred, pending>>

\* runStage, lines 106-110: close stage.out[j], then return; closing a closed
\* channel panics.
Close(l) ==
    /\ Running
    /\ l \in DOMAIN w
    /\ w[l].pc = "close" /\ w[l].j <= Len(nodes[l].out)
    /\ LET ch == nodes[l].out[w[l].j]
       IN  IF chans[ch].closed
           THEN /\ phase' = "panicked"
                /\ UNCHANGED <<chans, w>>
           ELSE /\ chans' = [chans EXCEPT ![ch].closed = TRUE]
                /\ w' = [w EXCEPT ![l].pc = IF w[l].j = Len(nodes[l].out)
                                            THEN "returned" ELSE @,
                                  ![l].j = @ + 1]
                /\ UNCHANGED phase
    /\ UNCHANGED <<avars, dvars, g, nodes, cpc, carg, cres, torn,
                   egress, execCount, failed, late, erred, pending>>

\* One step of the goroutine running runStage for stage l.
Worker(l) == Recv(l) \/ Spin(l) \/ Send(l) \/ Close(l)

\* totalExec, line 87: in <- either{Value: arg}; each call is made after the
\* previous one has returned. A send on the closed channel panics.
InvokeStep(x) ==
    /\ Running
    /\ cpc \in {"idle", "done"}
    /\ carg' = <<x>>
    /\ late' = torn
    /\ erred' = (erred \/ (cpc = "done" /\ cres.Err # Nil))
    /\ cres' = ZeroEither
    /\ execCount' = [l \in DOMAIN g |-> 0]
    /\ failed' = {}
    /\ IF chans[InCh].closed
       THEN /\ phase' = "panicked"
            /\ cpc' = "panicked"
            /\ UNCHANGED chans
       ELSE /\ Len(chans[InCh].buf) < PipeCap
            /\ chans' = [chans EXCEPT ![InCh].buf = Append(@, Either(<<x>>, Nil))]
            /\ cpc' = "waiting"
            /\ UNCHANGED phase
    /\ egress' = 0
    /\ UNCHANGED <<avars, nets, heap, g, nodes, w, torn, pending>>

Invoke(x) == InvokeStep(x) /\ UNCHANGED hvars

\* Mutant of Return: the error of the either read from out is dropped.
ReturnDropErr ==
    /\ Running
    /\ cpc = "waiting"
    /\ \/ /\ chans[OutCh].buf # <<>>
          /\ cres' = Either(Head(chans[OutCh].buf).Value, Nil)
          /\ chans' = [chans EXCEPT ![OutCh].buf = Tail(@)]
       \/ /\ chans[OutCh].buf = <<>> /\ chans[OutCh].closed
          /\ cres' = ZeroEither
          /\ UNCHANGED chans
    /\ cpc' = "done"
    /\ UNCHANGED <<avars, dvars, g, phase, nodes, w, carg, torn,
                   egress, execCount, failed, late, erred, pending>>

\* totalExec, lines 88-89: result := <-out; return result.Value, result.Err.
Return ==
    /\ Running
    /\ cpc = "waiting"
    /\ \/ /\ chans[OutCh].buf # <<>>
          /\ cres' = Head(chans[OutCh].buf)
          /\ chans' = [chans EXCEPT ![OutCh].buf = Tail(@)]
       \/ /\ chans[OutCh].buf = <<>> /\ chans[OutCh].closed
          /\ cres' = ZeroEither
          /\ UNCHANGED chans
    /\ cpc' = "done"
    /\ UNCHANGED <<avars, dvars, g, phase, nodes, w, carg, torn,
                   egress, execCount, failed, late, erred, pending>>

\* The Collapse closure: close(in). It is called once.
Collapse ==
    /\ Running
    /\ ~torn
    /\ torn' = TRUE
    /\ chans' = [chans EXCEPT ![InCh].closed = TRUE]
    /\ UNCHANGED <<avars, dvars, g, phase, nodes, w, cpc, carg, cres,
                   egress, execCount, failed, late, erred, pending>>

RunLabels == UNION {DOMAIN NewExecutionGraph(c.final, c.stages).graph :
                       c \in Candidates}

Next ==
    \/ Run
    \/ \E l \in RunLabels : Recv(l)
    \/ \E l \in RunLabels : Spin(l)
    \/ \E l \in RunLabels : Send(l)
    \/ \E l \in RunLabels : Close(l)
    \/ \E x \in Args : Invoke(x)
    \/ Return
    \/ Collapse

Spec == Init /\ [][Next]_vars

\* Arguments of the calls in the runs checked for progress: one that makes
\* the strict computations fail and one that does not.
LiveArgs == {1, -4}

LiveNext ==
    \/ Run
    \/ \E l \in RunLabels : Worker(l)
    \/ \E x \in LiveArgs : Invoke(x)
    \/ Return
    \/ Collapse

\* The Go scheduler runs every goroutine that can take a step: each runStage
\* goroutine and the caller blocked in totalExec.
FairSpec ==
    /\ Init /\ [][LiveNext]_vars
    /\ \A l \in RunLabels : WF_vars(Worker(l))
    /\ WF_vars(Return)

----------------------------------------------------------------------------
\* Calls of totalExec that overlap: other goroutines call it while a call is
\* waiting for its result.

MaxPending == 2     \* other goroutines inside totalExec at a time

\* Argument of the overlapping calls: it makes the strict computations
\* fail, so that both sending loops of runStage are exercised.
BurstArgs == {-4}

\* totalExec in another goroutine, line 87: in <- either{Value: arg}. The
\* goroutine then waits on out. A send on the closed channel panics.
SubmitStep(x) ==
    /\ Running
    /\ cpc = "waiting"
    /\ pending < MaxPending
    /\ IF chans[InCh].closed
       THEN /\ phase' = "panicked"
            /\ UNCHANGED <<chans, pending>>
       ELSE /\ Len(chans[InCh].buf) < PipeCap
            /\ chans' = [chans EXCEPT ![InCh].buf = Append(@, Either(<<x>>, Nil))]
            /\ pending' = pending + 1
            /\ UNCHANGED phase
    /\ egress' = 0
    /\ execCount' = [l \in DOMAIN g |-> 0]
    /\ failed' = {}
    /\ UNCHANGED <<avars, nets, heap, g, nodes, w, cpc, carg, cres, torn,
                   late, erred>>

Submit(x) == SubmitStep(x) /\ UNCHANGED hvars

\* totalExec in another goroutine, lines 88-89: result := <-out, whichever
\* either is there.
Drain ==
    /\ Running
    /\ pending > 0
    /\ \/ /\ chans[OutCh].buf # <<>>
          /\ chans' = [chans EXCEPT ![OutCh].buf = Tail(@)]
       \/ /\ chans[OutCh].buf = <<>> /\ chans[OutCh].closed
          /\ UNCHANGED chans
    /\ pending' = pending - 1
    /\ UNCHANGED <<avars, dvars, g, phase, nodes, w, cpc, carg, cres, torn,
                   egress, execCount, failed, late, erred>>

BurstNext ==
    \/ Run
    \/ \E l \in RunLabels : Worker(l)
    \/ \E x \in BurstArgs : Invoke(x)
    \/ Return
    \/ Collapse
    \/ \E x \in BurstArgs : Submit(x)
    \/ Drain

\* The graphs run with overlapping calls.
BurstCandidates == {JoinStages, PartialStages, LoneStages}

BurstInit ==
    /\ Init
    /\ \E c \in BurstCandidates : final = c.final /\ stages = c.stages

BurstSpec == BurstInit /\ [][BurstNext]_vars

----------------------------------------------------------------------------
\* Overlapping calls with a record of the sends: subs lists the arguments
\* in the order in which they were sent on in, sent counts the envelopes
\* sent on every channel.

MaxSubs == 3        \* sends on in

\* Arguments of the recorded calls: one that every computation accepts and
\* one that makes the strict and the partial computations fail.
OverlapArgs == {1, -4}

\* A channel whose buffer grew in the step has been sent on.
Count ==
    sent' = [c \in DOMAIN sent |->
                IF Len(chans'[c].buf) > Len(chans[c].buf)
                THEN sent[c] + 1 ELSE sent[c]]

CountedSend(l) == SendStep(l) /\ Count /\ UNCHANGED subs

CountedInvoke(x) ==
    /\ Len(subs) < MaxSubs
    /\ InvokeStep(x)
    /\ Count
    /\ subs' = IF chans' # chans THEN Append(subs, x) ELSE subs

CountedSubmit(x) ==
    /\ Len(subs) < MaxSubs
    /\ SubmitStep(x)
    /\ Count
    /\ subs' = IF chans' # chans THEN Append(subs, x) ELSE subs

OverlapNext ==
    \/ Run
    \/ \E l \in RunLabels : Recv(l)
    \/ \E l \in RunLabels : CountedSend(l)
    \/ \E x \in OverlapArgs : CountedInvoke(x)
    \/ Return
    \/ \E x \in OverlapArgs : CountedSubmit(x)
    \/ Drain

\* The graphs run with recorded overlapping calls.
OverlapCandidates == {JoinStages, PartialStages}

OverlapInit ==
    /\ Init
    /\ \E c \in OverlapCandidates : final = c.final /\ stages = c.stages

OverlapSpec == OverlapInit /\ [][OverlapNext]_vars

----------------------------------------------------------------------------
\* Two calls of Run on one ExecutionGraph. Channels are heap objects: every
\* make(chan either, 1) returns an address no earlier make returned, and the
\* closures totalExec and Collapse of a network hold its in and out.

MaxRuns == 2        \* calls of Run on the graph

RunIds == 1..MaxRuns

\* Arguments passed to the totalExec of either network.
DuoArgs == {1, -4}

\* The graph both networks are spawned from.
DuoStages ==
    [final |-> NewFinalStage("dec", <<"c">>),
     stages |-> << NewStage("c", "sadd2", <<Input>>) >>]

\* Mutant of makeChans: the channels are made once per graph and every call
\* of Run gets the same ones.
makeChansOnce(h, ids) ==
    LET e == AnyOrder(ids)
    IN  [c \in ids |-> CHOOSE a \in 1..Len(e) : e[a] = c]

\* The make(chan either, 1) calls of one Run, for the channels ids: each gets
\* the next free address.
makeChans(h, ids) ==
    LET e == AnyOrder(ids)
    IN  [c \in ids |-> Len(h) + (CHOOSE a \in 1..Len(e) : e[a] = c)]

\* The heap after those calls: the channels made are empty and open.
heapAfter(h, addr) ==
    LET top == Len(h) + Cardinality(DOMAIN addr)
        made == {addr[c] : c \in DOMAIN addr}
    IN  [a \in 1..(IF made \subseteq 1..Len(h) THEN Len(h) ELSE top) |->
            IF a \in made THEN [buf |-> <<>>, closed |-> FALSE] ELSE h[a]]

\* The nodes of one Run with the channels at their addresses.
placed(nd, addr) ==
    [l \in DOMAIN nd |->
        [in |-> [k \in 1..Len(nd[l].in) |-> addr[nd[l].in[k]]],
         out |-> [k \in 1..Len(nd[l].out) |-> addr[nd[l].out[k]]]]]

\* What one call of Run returns and spawns; before the call, nothing.
NoNetwork ==
    [phase |-> "built", nodes |-> Nil, w |-> Nil, in |-> 0, out |-> 0,
     cpc |-> "idle", carg |-> Nil, cres |-> ZeroEither, torn |-> FALSE]

DuoInit ==
    /\ mode = "duo"
    /\ LET r == NewExecutionGraph(DuoStages.final, DuoStages.stages)
       IN  /\ r.err = Nil
           /\ final = DuoStages.final
           /\ stages = DuoStages.stages
           /\ g = r.graph
    /\ apc = "done" /\ stageMap = g /\ graph = Nil /\ hasLoop = FALSE /\ err = Nil
    /\ phase = "built"
    /\ nodes = Nil /\ chans = Nil /\ w = Nil
    /\ cpc = "idle" /\ carg = Nil /\ cres = ZeroEither
    /\ torn = FALSE /\ late = FALSE /\ erred = FALSE /\ pending = 0
    /\ egress = 0
    /\ execCount = [l \in DOMAIN g |-> 0]
    /\ failed = {}
    /\ nets = [k \in RunIds |-> NoNetwork]
    /\ heap = <<>>
    /\ subs = <<>> /\ sent = Nil

Duo(k) == mode = "duo" /\ nets[k].phase = "running"

\* ExecutionGraph.Run, the k-th call.
DuoRun(k) ==
    /\ mode = "duo" /\ nets[k].phase = "built"
    /\ \E ord \in Perms(DOMAIN g) :
          LET addr == makeChans(heap, ChanIds(g))
              nd == placed(wire(g, ord), addr)
          IN  /\ heap' = heapAfter(heap, addr)
              /\ nets' = [nets EXCEPT ![k] =
                            [NoNetwork EXCEPT
                                !.phase = "running",
                                !.nodes = nd,
                                !.w = [l \in DOMAIN g |-> startStage(nd[l])],
                                !.in = addr[InCh],
                                !.out = addr[OutCh]]]
    /\ UNCHANGED <<avars, rvars, hvars>>

\* evaluated, for the node n of a network.
duoEvaluated(n, l, s) ==
    LET t == [s EXCEPT !.result = roundResult(l, s), !.pc = "send", !.j = 1]
    IN  IF Len(n.out) = 0 THEN NextRound(n, t) ELSE t

\* runStage of stage l in network k, lines 102-136.
DuoRecv(k, l) ==
    /\ Duo(k)
    /\ l \in DOMAIN nets[k].w
    /\ LET n == nets[k].nodes[l]
           s0 == nets[k].w[l]
       IN  /\ s0.pc = "recv" /\ s0.i <= Len(n.in)
           /\ LET ch == n.in[s0.i]
              IN  \/ /\ heap[ch].buf # <<>>
                     /\ LET arg == Head(heap[ch].buf)
                            s == [s0 EXCEPT !.args[s0.i] = arg.Value,
                                            !.executionErr =
                                                IF arg.Err # Nil THEN arg.Err ELSE @,
                                            !.i = @ + 1]
                        IN  nets' = [nets EXCEPT ![k].w[l] =
                                        IF s.i > Len(n.in)
                                        THEN duoEvaluated(n, l, s) ELSE s]
                     /\ heap' = [heap EXCEPT ![ch].buf = Tail(@)]
                  \/ /\ heap[ch].buf = <<>> /\ heap[ch].closed
                     /\ nets' = [nets EXCEPT
                                   ![k].w[l].pc = IF Len(n.out) = 0
                                                  THEN "returned" ELSE "close",
                                   ![k].w[l].j = 1]
                     /\ UNCHANGED heap
    /\ UNCHANGED <<avars, rvars, hvars>>

\* runStage of stage l in network k, lines 123-125 and 139-141.
DuoSend(k, l) ==
    /\ Duo(k)
    /\ l \in DOMAIN nets[k].w
    /\ LET n == nets[k].nodes[l]
           s0 == nets[k].w[l]
       IN  /\ s0.pc = "send" /\ s0.j <= Len(n.out)
           /\ LET ch == n.out[s0.j]
              IN  IF heap[ch].closed
                  THEN /\ nets' = [i \in RunIds |->
                                      [nets[i] EXCEPT !.phase = "panicked"]]
                       /\ UNCHANGED heap
                  ELSE /\ Len(heap[ch].buf) < PipeCap
                       /\ heap' = [heap EXCEPT ![ch].buf = Append(@, s0.result)]
                       /\ nets' = [nets EXCEPT ![k].w[l] =
                                      IF s0.j = Len(n.out)
                                      THEN NextRound(n, s0)
                                      ELSE [s0 EXCEPT !.j = @ + 1]]
    /\ UNCHANGED <<avars, rvars, hvars>>

\* runStage of stage l in network k, lines 106-110.
DuoClose(k, l) ==
    /\ Duo(k)
    /\ l \in DOMAIN nets[k].w
    /\ LET n == nets[k].nodes[l]
           s0 == nets[k].w[l]
       IN  /\ s0.pc = "close" /\ s0.j <= Len(n.out)
           /\ LET ch == n.out[s0.j]
              IN  IF heap[ch].closed
                  THEN /\ nets' = [i \in RunIds |->
                                      [nets[i] EXCEPT !.phase = "panicked"]]
                       /\ UNCHANGED heap
                  ELSE /\ heap' = [heap EXCEPT ![ch].closed = TRUE]
                       /\ nets' = [nets EXCEPT
                                     ![k].w[l].pc = IF s0.j = Len(n.out)
                                                    THEN "returned" ELSE @,
                                     ![k].w[l].j = @ + 1]
    /\ UNCHANGED <<avars, rvars, hvars>>

DuoWorker(k, l) == DuoRecv(k, l) \/ DuoSend(k, l) \/ DuoClose(k, l)

\* totalExec of network k, line 87; its caller makes no call after having
\* called Collapse (such calls are those of Invoke above).
DuoInvoke(k, x) ==
    /\ Duo(k)
    /\ nets[k].cpc \in {"idle", "done"}
    /\ ~nets[k].torn
    /\ Len(heap[nets[k].in].buf) < PipeCap
    /\ heap' = [heap EXCEPT ![nets[k].in].buf = Append(@, Either(<<x>>, Nil))]
    /\ nets' = [nets EXCEPT ![k].cpc = "waiting", ![k].carg = <<x>>,
                            ![k].cres = ZeroEither]
    /\ UNCHANGED <<avars, rvars, hvars>>

\* totalExec of network k, lines 88-89.
DuoReturn(k) ==
    /\ Duo(k)
    /\ nets[k].cpc = "waiting"
    /\ LET ch == nets[k].out
       IN  \/ /\ heap[ch].buf # <<>>
              /\ nets' = [nets EXCEPT ![k].cres = Head(heap[ch].buf),
                                      ![k].cpc = "done"]
              /\ heap' = [heap EXCEPT ![ch].buf = Tail(@)]
           \/ /\ heap[ch].buf = <<>> /\ heap[ch].closed
              /\ nets' = [nets EXCEPT ![k].cres = ZeroEither, ![k].cpc = "done"]
              /\ UNCHANGED heap
    /\ UNCHANGED <<avars, rvars, hvars>>

\* The Collapse closure of network k: close(in); called once.
DuoCollapse(k) ==
    /\ Duo(k)
    /\ ~nets[k].torn
    /\ nets' = [nets EXCEPT ![k].torn = TRUE]
    /\ heap' = [heap EXCEPT ![nets[k].in].closed = TRUE]
    /\ UNCHANGED <<avars, rvars, hvars>>

DuoNext ==
    \/ \E k \in RunIds : DuoRun(k)
    \/ \E k \in RunIds : \E l \in RunLabels : DuoRecv(k, l)
    \/ \E k \in RunIds : \E l \in RunLabels : DuoSend(k, l)
    \/ \E k \in RunIds : \E l \in RunLabels : DuoClose(k, l)
    \/ \E k \in RunIds : \E x \in DuoArgs : DuoInvoke(k, x)
    \/ \E k \in RunIds : DuoReturn(k)
    \/ \E k \in RunIds : DuoCollapse(k)

\* Every goroutine of either network that can take a step is scheduled.
DuoSpec ==
    /\ DuoInit /\ [][DuoNext]_vars
    /\ \A k \in RunIds : \A l \in RunLabels : WF_vars(DuoWorker(k, l))
    /\ \A k \in RunIds : WF_vars(DuoReturn(k))

----------------------------------------------------------------------------
\* Graph notions the properties are stated with, defined on edge sets and
\* independently of the traversals above.

GraphEdgeSet(gr) == UNION {{<<n, m>> : m \in Range(gr[n])} : n \in DOMAIN gr}
RequiresEdgeSet(sm) ==
    UNION {{<<p, n>> : p \in Range(sm[n].requires)} : n \in DOMAIN sm}

RECURSIVE Closure(_, _)
Closure(E, S) ==
    LET T == S \cup {e[2] : e \in {d \in E : d[1] \in S}}
    IN  IF T = S THEN S ELSE Closure(E, T)

Cyclic(E) == \E e \in E : e[1] \in Closure(E, {e[2]})
ReachableFromInput(E) == Closure(E, {Input})
OnCycle(E, n) == \E e \in E : e[1] = n /\ n \in Closure(E, {e[2]})

Collides(sts) == \E i \in DOMAIN sts : sts[i].label \in {Input, sink}
NewExecutionGraphReturned == mode = "stages" /\ apc = "done"
MapBuilt == DOMAIN stageMap # {}

\* C6: NewExecutionGraph returns an error whenever some stage of the label
\* map (ordinary, entry or exit) is not reachable from the entry stage along
\* dependency edges, a stage with no dependencies that nothing requires
\* included.
C6_UnreachableStageRejected ==
    (NewExecutionGraphReturned /\ MapBuilt
       /\ \E l \in DOMAIN stageMap :
              l \notin ReachableFromInput(RequiresEdgeSet(stageMap)))
    => err # Nil

\* C7: in every graph NewExecutionGraph accepts, each stage other than the
\* exit is required by at least one stage of the graph.
C7_AcceptedStagesHaveDependents ==
    (NewExecutionGraphReturned /\ err = Nil)
    => \A l \in DOMAIN stageMap \ {sink} :
           \E n \in DOMAIN stageMap : l \in Range(stageMap[n].requires)

\* C8: containsLoop returns true exactly when the successor graph has a
\* directed cycle (self-loops and cycles unreachable from the entry included),
\* whatever the iteration order of the map; and NewExecutionGraph returns the
\* loop error for every stage map whose requires edges contain a cycle.
C8_ContainsLoopIffCycle ==
    /\ apc \in {"check", "done"} => (hasLoop <=> Cyclic(GraphEdgeSet(graph)))
    /\ (NewExecutionGraphReturned /\ MapBuilt /\ Cyclic(RequiresEdgeSet(stageMap)))
       => (err = <<"execution graph contains loops">> /\ g = Nil)

\* C8 witness: containsLoop has reported a cycle none of whose nodes is
\* reachable from the entry.
C8_Witness ==
    /\ mode = "graph" /\ apc = "done" /\ hasLoop
    /\ \A n \in GraphNodes(graph) :
           OnCycle(GraphEdgeSet(graph), n)
           => n \notin ReachableFromInput(GraphEdgeSet(graph))
    /\ Input \in DOMAIN graph

\* The violations consistencyCheck looks for, stated on the graph.
Inconsistent(gr) ==
    \/ \E n \in GraphNodes(gr) \ {sink} : Len(Succ(gr, n)) = 0
    \/ \E n \in GraphNodes(gr) : n \notin ReachableFromInput(GraphEdgeSet(gr))

ConsistencyCheckReturned ==
    apc = "done" /\ ~hasLoop /\ {Input, sink} \subseteq GraphNodes(graph)

\* C9: for every acyclic successor graph with the entry and the exit,
\* consistencyCheck returns an error if and only if some node other than the
\* exit has no successor or some node (key or successor) is not reachable
\* from the entry.
C9_ConsistencyCheckIff ==
    ConsistencyCheckReturned => (err # Nil <=> Inconsistent(graph))

\* C9 witness: consistencyCheck has rejected a graph in which every node but
\* the exit has a successor and some node is unreachable.
C9_Witness ==
    /\ ConsistencyCheckReturned /\ err # Nil
    /\ \A n \in GraphNodes(graph) \ {sink} : Len(Succ(graph, n)) > 0
    /\ \E n \in GraphNodes(graph) :
           n \notin ReachableFromInput(GraphEdgeSet(graph))

\* C9 second case reached: a consistent graph with two ordinary nodes is
\* accepted.
C9_WitnessAccepted ==
    /\ ConsistencyCheckReturned /\ err = Nil
    /\ OrdLabels \subseteq GraphNodes(graph)

\* The requires edges of the arguments of NewExecutionGraph.
ArgumentEdges ==
    {<<p, sink>> : p \in Range(final.requires)} \cup
    UNION {{<<p, stages[i].label>> : p \in Range(stages[i].requires)} :
              i \in DOMAIN stages}

\* C10: whenever an ordinary stage is labelled with the reserved entry or
\* exit label, NewExecutionGraph returns no graph and the collision error
\* naming such a label, whatever other defect (cycle, dangling output,
\* unreachable stage) the stage set has.
C10_CollisionReportedFirst ==
    (NewExecutionGraphReturned /\ Collides(stages))
    => /\ g = Nil
       /\ Len(err) = 2
       /\ err[1] = "interfering with internal stage"
       /\ err[2] \in {Input, sink}
       /\ \E i \in DOMAIN stages : stages[i].label = err[2]

\* C10 witness: a rejected stage set with a reserved label that also has a
\* cycle among its requires edges.
C10_Witness ==
    /\ NewExecutionGraphReturned /\ Collides(stages)
    /\ Cyclic(ArgumentEdges)
    /\ err # Nil

\* The outcome of stage l for the external argument x when the stages are
\* evaluated in dependency order: the entry yields x, a stage applies its
\* computation to the values of its dependencies in requires order, and a
\* stage with a failed dependency has no value.
RECURSIVE RefOut(_, _, _)
RefOut(gr, l, x) ==
    IF l = Input THEN Either(<<x>>, Nil)
    ELSE LET ins == [k \in 1..Len(gr[l].requires) |->
                        RefOut(gr, gr[l].requires[k], x)]
         IN  IF \E k \in DOMAIN ins : ins[k].Err # Nil
             THEN Either(Nil, <<"dependency failed">>)
             ELSE Apply(gr[l].exec, [k \in DOMAIN ins |-> ins[k].Value])

IsTestGraph == final = TestStages.final /\ stages = TestStages.stages

\* The results TestComputation expects.
TestWant == (1 :> 18) @@ (2 :> 29) @@ (-4 :> -7) @@ (0 :> 9)

Returned == mode = "run" /\ cpc = "done"

\* C1: on an accepted graph, with calls made one at a time, a call whose
\* argument makes no stage computation fail returns a nil error and the value
\* of the exit computation in the dependency-order evaluation; for the graph
\* of TestComputation the arguments 1, 2, -4, 0 give 18, 29, -7, 9.
C1_InvocationComputesGraph ==
    Returned =>
      /\ RefOut(g, sink, carg[1]).Err = Nil => cres = RefOut(g, sink, carg[1])
      /\ IsTestGraph => cres = Either(<<TestWant[carg[1]]>>, Nil)

\* C1 witness: a call on the network of TestComputation returned -7 for -4;
\* and one on a graph whose exit computation is not symmetric returned.
C1_Witness ==
    /\ Returned /\ IsTestGraph
    /\ carg = <<-4>> /\ cres = Either(<<-7>>, Nil)

\* C2: when exactly one stage computation failed for a request, the call
\* returns that error wrapped once with the label of that stage and nothing
\* else, and the exit computation has not run unless it is the one that
\* failed.
C2_SingleFailureWrappedOnce ==
    (Returned /\ Cardinality(failed) = 1)
    => \A f \in failed :
          /\ cres.Err = Wrap(f[1], f[2])
          /\ f[1] # sink => execCount[sink] = 0

\* C2 witness: stage c failed, two stages lie between it and the caller, and
\* the call returned.
C2_Witness ==
    /\ Returned
    /\ failed = {<<"c", <<"negative argument">>>>}
    /\ final = FailingStages.final /\ stages = FailingStages.stages
    /\ cres.Err = <<"stage", "c", "negative argument">>

\* C3: on a network that is not torn down, every call returns, the exit
\* worker having put exactly one envelope on out for the value submitted.
C3_InvocationReturns ==
    /\ [](mode = "run" => egress <= 1)
    /\ [](Returned => egress = 1)
    /\ (mode = "run" /\ cpc = "waiting" /\ ~torn) ~> (cpc = "done" \/ torn)

\* C3 witness: a call has returned from a network that is not torn down and
\* has a stage with three outbound channels.
C3_Witness ==
    /\ Returned /\ ~torn /\ egress = 1
    /\ \E l \in DOMAIN nodes : Len(nodes[l].out) = 3

\* Every runStage goroutine has returned and out is closed.
Collapsed ==
    /\ Running
    /\ \A l \in DOMAIN w : w[l].pc = "returned"
    /\ chans[OutCh].closed

\* C4: after Collapse is called, every worker of the network returns and out
\* is closed (unless a call made after Collapse has crashed the program).
C4_CollapseReachesEveryWorker ==
    (mode = "run" /\ torn) ~> (Collapsed \/ phase = "panicked")

\* C5: a call made after Collapse returns an error and no value; it neither
\* blocks nor panics.
C5_LateInvocationReturnsError ==
    (mode = "run" /\ late)
    => /\ phase # "panicked"
       /\ cpc = "done" /\ cres.Value = Nil /\ cres.Err # Nil

\* What a call with argument x returns, stage by stage: the entry yields x;
\* a stage with a failed dependency forwards the error of the last such
\* dependency in requires order; any other stage applies its computation and
\* labels the error it returns.
RECURSIVE Outcome(_, _, _)
Outcome(gr, l, x) ==
    IF l = Input THEN Either(<<x>>, Nil)
    ELSE LET ins == [k \in 1..Len(gr[l].requires) |->
                        Outcome(gr, gr[l].requires[k], x)]
             bad == {k \in DOMAIN ins : ins[k].Err # Nil}
         IN  IF bad # {}
             THEN Either(Nil, ins[CHOOSE k \in bad : \A m \in bad : m <= k].Err)
             ELSE LET r == Apply(gr[l].exec, [k \in DOMAIN ins |-> ins[k].Value])
                  IN  Either(r.Value, IF r.Err # Nil THEN Wrap(l, r.Err) ELSE Nil)

\* The channels network k holds: those of its nodes and of its closures.
ChansOf(k) ==
    IF nets[k].phase = "built" THEN {}
    ELSE {nets[k].in, nets[k].out} \cup
         UNION {Range(nets[k].nodes[l].in) \cup Range(nets[k].nodes[l].out) :
                   l \in DOMAIN nets[k].nodes}

DuoIsolated ==
    mode = "duo" =>
      /\ \A j, k \in RunIds : j # k => ChansOf(j) \cap ChansOf(k) = {}
      /\ \A k \in RunIds :
            /\ nets[k].phase # "panicked"
            /\ nets[k].cpc = "idle" => \A a \in ChansOf(k) : heap[a].buf = <<>>
            /\ nets[k].cpc = "done"
                  => nets[k].cres = Outcome(g, sink, nets[k].carg[1])
            /\ ~nets[k].torn
                  => /\ \A a \in ChansOf(k) : ~heap[a].closed
                     /\ \A l \in DOMAIN nets[k].w :
                           nets[k].w[l].pc \in {"recv", "send"}

\* C11: two networks obtained from two calls of Run on one graph hold
\* disjoint channels; a value submitted to one puts no envelope in the other
\* and each call returns the outcome of its own argument; while a network is
\* not torn down none of its channels is closed, all its workers run and its
\* calls return, whatever happened to the other network; and the stage map of
\* the graph never changes.
C11_RunsAreIsolated ==
    /\ []DuoIsolated
    /\ [][g' = g /\ stageMap' = stageMap]_vars
    /\ \A k \in RunIds :
          (mode = "duo" /\ nets[k].cpc = "waiting" /\ ~nets[k].torn)
             ~> (nets[k].cpc = "done" \/ nets[k].torn)

\* C11 witness: the first network is torn down with every worker returned,
\* its last call having failed, and the second network has since returned the
\* value of a different argument.
C11_Witness ==
    /\ mode = "duo"
    /\ nets[1].torn /\ \A l \in DOMAIN nets[1].w : nets[1].w[l].pc = "returned"
    /\ nets[1].carg = <<-4>> /\ nets[1].cres.Err # Nil
    /\ nets[2].phase = "running" /\ ~nets[2].torn
    /\ nets[2].cpc = "done" /\ nets[2].carg = <<1>>
    /\ nets[2].cres = Either(<<2>>, Nil)

\* C12: with calls made one at a time, every call returns the outcome that
\* the graph and its argument determine, whatever calls preceded it (calls
\* that returned an error included); and the nodes, the channels and the
\* goroutines of the network are those Run made, all goroutines running as
\* long as Collapse has not been called.
C12_SequentialCallsIndependent ==
    /\ [](Returned => cres = Outcome(g, sink, carg[1]))
    /\ [](Running =>
            /\ DOMAIN nodes = DOMAIN g /\ DOMAIN w = DOMAIN g
            /\ DOMAIN chans = ChanIds(g)
            /\ ~torn => \A l \in DOMAIN w : w[l].pc \in {"recv", "send"})
    /\ [][Running => nodes' = nodes]_vars

\* C12 witness: a call returned a value on a network one of whose earlier
\* calls returned an error.
C12_Witness ==
    /\ Returned /\ erred /\ ~torn
    /\ cres.Err = Nil /\ cres.Value # Nil
    /\ cres = Outcome(g, sink, carg[1])

Both(e) == e.Value # Nil /\ e.Err # Nil

\* C13: no either on a channel, out included, carries a value together with
\* an error, also when a stage computation returns both; and no call returns
\* a value together with an error.
C13_EnvelopeValueOrError ==
    mode = "run" =>
      /\ \A c \in DOMAIN chans :
             \A i \in DOMAIN chans[c].buf : ~Both(chans[c].buf[i])
      /\ Returned => ~Both(cres)

\* Worker l has just received the last argument of a round (or, without
\* inbound channels, started one).
RoundEvaluated(l) ==
    /\ w[l].pc = "recv" /\ w'[l] # w[l]
    /\ \/ w'[l].pc = "send"
       \/ w'[l].pc = "recv" /\ Len(nodes[l].out) = 0 /\ w[l].i >= Len(nodes[l].in)

\* What the steps of worker l do in a round without an error among its
\* inputs: one computation when the last argument is in, then one send of
\* the same either per outbound channel, in order, and nothing else.
OneComputationOneEnvelope(l) ==
    /\ (RoundEvaluated(l) /\ w'[l].pc = "send" /\ w'[l].executionErr = Nil)
          => /\ execCount'[l] = Bump(execCount[l])
             /\ w'[l].j = 1
             /\ LET r == Apply(g[l].exec, w'[l].args)
                IN  w'[l].result =
                       Either(r.Value, IF r.Err # Nil THEN Wrap(l, r.Err) ELSE Nil)
    /\ (w[l].pc = "send" /\ w[l].executionErr = Nil /\ cpc' = cpc)
          => /\ execCount'[l] = execCount[l]
             /\ w'[l] # w[l] =>
                   /\ chans'[nodes[l].out[w[l].j]].buf =
                         Append(chans[nodes[l].out[w[l].j]].buf, w[l].result)
                   /\ \A k \in DOMAIN nodes[l].out :
                         k # w[l].j =>
                            Len(chans'[nodes[l].out[k]].buf)
                               <= Len(chans[nodes[l].out[k]].buf)
                   /\ IF w[l].j < Len(nodes[l].out)
                      THEN w'[l] = [w[l] EXCEPT !.j = @ + 1]
                      ELSE w'[l].pc = "recv"

\* C14: in a round none of whose inbound eithers carries an error a worker
\* runs its computation exactly once, whatever the number of its outbound
\* channels, and sends the one resulting either to each outbound channel
\* exactly once.
C14_OneComputationPerRound ==
    /\ [](Running => \A l \in DOMAIN w :
              w[l].pc = "send" => w[l].j \in 1..Len(nodes[l].out))
    /\ [][(Running /\ phase' = "running") =>
             \A l \in DOMAIN w : OneComputationOneEnvelope(l)]_vars

\* C14 witness: stage b, which has three outbound channels, has run its
\* computation once in this round and two of the channels hold its either
\* while the third send is pending.
C14_Witness ==
    /\ Running /\ "b" \in DOMAIN w
    /\ Len(nodes["b"].out) = 3
    /\ w["b"].pc = "send" /\ w["b"].j = 3 /\ w["b"].executionErr = Nil
    /\ execCount["b"] = 1
    /\ w["b"].result.Value # Nil
    /\ chans[nodes["b"].out[1]].buf = <<w["b"].result>>
    /\ chans[nodes["b"].out[2]].buf = <<w["b"].result>>

\* An either has been taken from channel c in this step.
Taken(c) == Len(chans'[c].buf) < Len(chans[c].buf)

\* C15: a worker takes an either from its inbound channel of index k only
\* when the receive loop stands at k, the channels of lower index having been
\* read in this round; while the channel at which the loop stands is empty
\* nothing is taken from a later one, even if it holds data.
C15_InboundReadInIndexOrder ==
    [][(Running /\ phase' = "running") =>
          \A l \in DOMAIN w : \A k \in DOMAIN nodes[l].in :
             Taken(nodes[l].in[k])
                => /\ w[l].pc = "recv" /\ w[l].i = k
                   /\ chans[nodes[l].in[k]].buf # <<>>
                   /\ \A m \in DOMAIN nodes[l].in :
                         m # k => chans'[nodes[l].in[m]] = chans[nodes[l].in[m]]
                   /\ k < Len(nodes[l].in)
                         => /\ w'[l].i = k + 1
                            /\ w'[l].args[k] = Head(chans[nodes[l].in[k]].buf).Value]_vars

\* C15 witness: the exit worker waits for its first argument on an empty
\* channel while its second inbound channel already holds an either.
C15_Witness ==
    /\ Running /\ Len(nodes[sink].in) = 2
    /\ w[sink].pc = "recv" /\ w[sink].i = 1
    /\ chans[nodes[sink].in[1]].buf = <<>>
    /\ chans[nodes[sink].in[2]].buf # <<>>

\* The goroutines that send on channel c, with the position of c in their
\* outbound list, and those that receive from it.
Producers(c) ==
    UNION {{<<l, j>> : j \in {i \in DOMAIN nodes[l].out : nodes[l].out[i] = c}} :
              l \in DOMAIN nodes}
Consumers(c) ==
    UNION {{<<l, k>> : k \in {i \in DOMAIN nodes[l].in : nodes[l].in[i] = c}} :
              l \in DOMAIN nodes}

\* The channels made by the wiring loop, as the nodes hold them.
InternalPipes ==
    UNION {Range(nodes[l].in) : l \in DOMAIN nodes \ {Input}} \cup
    UNION {Range(nodes[l].out) : l \in DOMAIN nodes \ {sink}}

\* C16: after Run on an accepted graph every stage but the entry has one
\* inbound channel per requires entry, the i-th of them written by the
\* worker of requires[i] and by no other; every internal channel has one
\* sender and one receiver; there are as many internal channels as requires
\* entries in the graph; the entry worker reads in only and the exit worker
\* writes out only, the caller being at the other end of each.
C16_WiringFollowsRequires ==
    Running =>
      /\ DOMAIN nodes = DOMAIN g
      /\ \A l \in DOMAIN g \ {Input} :
            /\ Len(nodes[l].in) = Len(g[l].requires)
            /\ \A i \in DOMAIN nodes[l].in :
                  /\ Cardinality(Producers(nodes[l].in[i])) = 1
                  /\ \A p \in Producers(nodes[l].in[i]) : p[1] = g[l].requires[i]
      /\ \A c \in InternalPipes :
            /\ c \notin {InCh, OutCh}
            /\ Cardinality(Producers(c)) = 1
            /\ Cardinality(Consumers(c)) = 1
      /\ Cardinality(InternalPipes) =
            SumLen([l \in DOMAIN g |-> g[l].requires], DOMAIN g)
      /\ nodes[Input].in = <<InCh>> /\ nodes[sink].out = <<OutCh>>
      /\ Producers(InCh) = {} /\ Consumers(InCh) = {<<Input, 1>>}
      /\ Producers(OutCh) = {<<sink, 1>>} /\ Consumers(OutCh) = {}

\* C16 witness: Run has wired a graph in which one stage names another twice
\* in its requires list; the two inbound channels differ and the stage named
\* has three outbound channels.
C16_Witness ==
    /\ Running
    /\ \E l \in DOMAIN g :
          /\ Len(g[l].requires) = 2 /\ g[l].requires[1] = g[l].requires[2]
          /\ nodes[l].in[1] # nodes[l].in[2]
          /\ Len(nodes[g[l].requires[1]].out) = 3

\* The requires positions of stage l whose dependency fails for argument x.
FailedInputs(gr, l, x) ==
    {k \in DOMAIN gr[l].requires : Outcome(gr, gr[l].requires[k], x).Err # Nil}

Last(S) == CHOOSE k \in S : \A m \in S : m <= k

\* A receive keeps the error of the either it takes, replacing any error
\* kept before in the round; a round that ends with an error kept runs no
\* computation and its either is that error alone.
LastErrorKept(l) ==
    \A k \in DOMAIN nodes[l].in :
       Taken(nodes[l].in[k]) =>
          LET arg == Head(chans[nodes[l].in[k]].buf)
          IN  /\ w'[l].executionErr =
                    IF arg.Err # Nil THEN arg.Err ELSE w[l].executionErr
              /\ (w'[l].pc = "send" /\ w'[l].executionErr # Nil)
                    => /\ w'[l].result = Either(Nil, w'[l].executionErr)
                       /\ execCount'[l] = execCount[l]

\* C17: a worker two or more of whose inbound eithers carry an error in a
\* round runs no computation and sends exactly the error read from the
\* inbound channel of highest index among them, without a value and without
\* its own label; the other errors of the round are dropped.
C17_LastInboundErrorWins ==
    /\ [](Running =>
            \A l \in DOMAIN w \ {Input} :
               (w[l].pc = "send" /\ Cardinality(FailedInputs(g, l, carg[1])) >= 2)
                  => /\ w[l].result =
                          Either(Nil,
                                 Outcome(g, g[l].requires[Last(FailedInputs(g, l, carg[1]))],
                                         carg[1]).Err)
                     /\ execCount[l] = 0)
    /\ [][(Running /\ phase' = "running") =>
             \A l \in DOMAIN w : LastErrorKept(l)]_vars

\* C17 witness: both dependencies of the exit stage failed; its worker ran
\* no computation and is sending the error of the second one.
C17_Witness ==
    /\ Running
    /\ final = JoinStages.final /\ stages = JoinStages.stages
    /\ {f[1] : f \in failed} = {"c", "d"}
    /\ w[sink].pc = "send" /\ execCount[sink] = 0
    /\ w[sink].result = Either(Nil, <<"stage", "d", "negative argument">>)

\* Worker l stands at a send on a channel that is full and open.
BlockedOnSend(l) ==
    /\ w[l].pc = "send"
    /\ Len(chans[nodes[l].out[w[l].j]].buf) >= PipeCap
    /\ ~chans[nodes[l].out[w[l].j]].closed

\* C18: whatever number of values is submitted without awaiting results,
\* every channel holds at most one either; an either is put only on an empty
\* channel, so that the sends on a channel exceed the receives from it by at
\* most one; and a worker standing at a send on a full channel does nothing
\* until the consumer has taken the either.
C18_OneEitherPerChannel ==
    /\ [](Running => \A c \in DOMAIN chans : Len(chans[c].buf) <= 1)
    /\ [][(Running /\ phase' = "running") =>
             /\ \A c \in DOMAIN chans :
                   Len(chans'[c].buf) > Len(chans[c].buf)
                      => chans[c].buf = <<>> /\ Len(chans'[c].buf) = 1
             /\ \A l \in DOMAIN w : BlockedOnSend(l) => w'[l] = w[l]]_vars

\* C18 witness: with three calls outstanding, in holds a value and a worker
\* with an either to send stands at a full channel.
C18_Witness ==
    /\ Running /\ cpc = "waiting" /\ pending = MaxPending
    /\ chans[InCh].buf # <<>>
    /\ \E l \in DOMAIN w : l # Input /\ BlockedOnSend(l)
    /\ BlockedOnSend(Input)

\* Channel c is closed in this step.
Closing(c) == chans'[c].closed /\ ~chans[c].closed

\* C19: after the one call of Collapse, with or without a request in
\* flight, a channel is closed only by the worker that sends on it (in by
\* Collapse) and never twice, no worker sends on a closed channel, and a
\* worker that has returned takes nothing from its inbound channels, runs no
\* computation and puts nothing on its outbound channels. (The only panic is
\* that of a caller who calls totalExec after Collapse.)
C19_CascadeClosesOnce ==
    /\ [](mode = "run" =>
            /\ phase = "panicked" => cpc = "panicked"
            /\ Running =>
                  \A l \in DOMAIN w :
                     w[l].pc \in {"send", "close"}
                        => ~chans[nodes[l].out[w[l].j]].closed)
    /\ [][(Running /\ phase' = "running") =>
             /\ \A c \in DOMAIN chans :
                   /\ chans[c].closed => chans'[c].closed
                   /\ Closing(c) =>
                         IF c = InCh THEN ~torn /\ torn'
                         ELSE \E l \in DOMAIN w :
                                 /\ w[l].pc = "close"
                                 /\ nodes[l].out[w[l].j] = c
                                 /\ w'[l] # w[l]
             /\ \A l \in DOMAIN w :
                   w[l].pc = "returned"
                      => /\ w'[l] = w[l]
                         /\ execCount'[l] <= execCount[l]
                         /\ \A k \in DOMAIN nodes[l].in : ~Taken(nodes[l].in[k])
                         /\ \A k \in DOMAIN nodes[l].out :
                               ~(Len(chans'[nodes[l].out[k]].buf)
                                    > Len(chans[nodes[l].out[k]].buf))]_vars

\* C19 witness: Collapse was called with a request in flight; the entry
\* worker has closed its successors and returned while another worker still
\* has the either of that request to send and the caller waits for it.
C19_Witness ==
    /\ Running /\ torn /\ cpc = "waiting"
    /\ w[Input].pc = "returned"
    /\ \E l \in DOMAIN w : w[l].pc = "send" /\ w[l].result # ZeroEither

\* The stages that depend on stage f, directly or through other stages.
Dependents(gr, f) == Closure(RequiresEdgeSet(gr), {f}) \ {f}

DependsOnFailed(l) == \E f \in failed : l \in Dependents(g, f[1])

\* C20: for a request in which the computation of some stage F fails, every
\* stage that does not depend on a failed stage runs its computation exactly
\* once, and every stage that depends on one runs it zero times and sends
\* the error alone, whatever successful inputs it received.
C20_FailureStopsDependentsOnly ==
    mode = "run" =>
      /\ (Returned /\ failed # {})
            => \A l \in DOMAIN g :
                  execCount[l] = IF DependsOnFailed(l) THEN 0 ELSE 1
      /\ Running
            => \A l \in DOMAIN w :
                  (w[l].pc = "send" /\ DependsOnFailed(l))
                     => /\ execCount[l] = 0
                        /\ w[l].result.Value = Nil /\ w[l].result.Err # Nil

----------------------------------------------------------------------------
\* Overlapping calls: which result a caller gets.

\* The position in subs of the submission whose result is the next either
\* read from out.
NextAnswered == sent[OutCh] - Len(chans[OutCh].buf) + 1

\* C21: envelopes carry no request identifier. With several callers inside
\* totalExec at once, the caller that reads out gets the outcome of the
\* oldest submission whose result has not been read yet, whoever made that
\* submission; so a caller whose call overlaps a call with another argument
\* can get the result computed from that other argument.
C21_ReaderGetsOldestUnreadResult ==
    [][(mode = "run" /\ cpc = "waiting" /\ cpc' = "done")
          => /\ NextAnswered <= Len(subs)
             /\ cres' = Outcome(g, sink, subs[NextAnswered])]_vars

\* C21 witness: the caller submitted first, another goroutine submitted a
\* different argument before any result was read, and the caller has
\* returned with the outcome of the other argument, which is not the outcome
\* of its own.
C21_Witness ==
    /\ Returned
    /\ Len(subs) = 2 /\ subs[1] = carg[1] /\ subs[2] # carg[1]
    /\ cres = Outcome(g, sink, subs[2])
    /\ cres # Outcome(g, sink, carg[1])

----------------------------------------------------------------------------
\* The adjacency construction.

\* How often x occurs in the list s.
Occurrences(s, x) == Cardinality({i \in DOMAIN s : s[i] = x})

\* convertStages has returned graph for stageMap.
ConvertStagesReturned ==
    \/ mode = "map" /\ apc = "converted"
    \/ mode = "stages" /\ apc \in {"loop", "check"}

\* C22: convertStages inverts requires exactly: n stands in the list of p as
\* often as p stands in the requires of stage n, the keys of the graph are
\* the labels some stage requires, and the empty stage map gives the empty
\* graph.
C22_ConvertStagesInvertsRequires ==
    ConvertStagesReturned
    => /\ \A p \in Labels, n \in Labels :
             Occurrences(Succ(graph, p), n)
                = IF n \in DOMAIN stageMap
                  THEN Occurrences(stageMap[n].requires, p) ELSE 0
       /\ DOMAIN graph = {p \in Labels : \E n \in DOMAIN stageMap :
                                            p \in Range(stageMap[n].requires)}
       /\ \A p \in DOMAIN graph : Range(graph[p]) \subseteq DOMAIN stageMap
       /\ (DOMAIN stageMap = {}) => (DOMAIN graph = {})

\* C22 witness: a stage map given to convertStages in which a stage names a
\* predecessor twice and another label is required by no stage; the graph
\* lists the stage twice under the predecessor and has no key for the other.
C22_Witness ==
    /\ mode = "map" /\ apc = "converted"
    /\ \E p \in DOMAIN graph, n \in DOMAIN stageMap :
          /\ Occurrences(stageMap[n].requires, p) = 2
          /\ Occurrences(graph[p], n) = 2
    /\ \E q \in DOMAIN stageMap : q \notin DOMAIN graph

\* The empty stage map has been converted to the empty graph.
ConvertedEmptyMap ==
    mode = "map" /\ apc = "converted" /\ DOMAIN stageMap = {} /\ DOMAIN graph = {}

----------------------------------------------------------------------------
\* Rounds across the network.

\* The stage that sends on channel c; the callers send on in.
ProducerOf(c) == IF c = OutCh THEN sink ELSE g[c[1]].requires[c[2]]

\* The either that is the k-th one sent on channel c when the rounds are
\* aligned: the one derived from the k-th submitted value.
Aligned(c, k) ==
    IF c = InCh THEN Either(<<subs[k]>>, Nil)
    ELSE Outcome(g, ProducerOf(c), subs[k])

\* The number of envelopes received from channel c so far.
TakenFrom(c) == sent[c] - Len(chans[c].buf)

\* Every either in a buffer is the one its position in the sequence of the
\* sends on that channel calls for.
PipesAligned ==
    \A c \in DOMAIN chans :
       /\ sent[c] <= Len(subs)
       /\ \A i \in 1..Len(chans[c].buf) :
             chans[c].buf[i] = Aligned(c, TakenFrom(c) + i)

\* Worker l is in one round r: it has taken r envelopes from the inbound
\* channels it has read in this round and r - 1 from the others, the
\* arguments it holds are those of the r-th submission, and the either it is
\* sending is the outcome of stage l for the r-th submission.
InOneRound(l) ==
    LET in == nodes[l].in
    IN  IF w[l].pc = "send"
        THEN /\ \A j \in DOMAIN in : TakenFrom(in[j]) = TakenFrom(in[1])
             /\ TakenFrom(in[1]) \in 1..Len(subs)
             /\ w[l].result = Outcome(g, l, subs[TakenFrom(in[1])])
        ELSE w[l].pc = "recv"
             => /\ \A j \in DOMAIN in :
                      TakenFrom(in[j])
                         = TakenFrom(in[Len(in)]) + (IF j < w[l].i THEN 1 ELSE 0)
                /\ \A j \in 1..(w[l].i - 1) :
                      /\ TakenFrom(in[j]) <= Len(subs)
                      /\ w[l].args[j] = Aligned(in[j], TakenFrom(in[j])).Value

\* C23: rounds stay aligned across the network, whether the callers wait
\* for their results or not and whether or not a round carried errors: the
\* k-th either sent on every channel, out included, derives from the k-th
\* submitted value, and no worker combines in one round envelopes that stem
\* from different submissions.
C23_RoundsStayAligned ==
    Running => /\ PipesAligned
               /\ \A l \in DOMAIN w : InOneRound(l)

\* C23 witness: three values were submitted by overlapping calls, the second
\* made the computations fail, and the third either on out is the outcome of
\* the third value; the exit stage takes two arguments, and the caller that
\* submitted first is still waiting.
C23_Witness ==
    /\ Running
    /\ Len(subs) = 3 /\ subs[2] = -4 /\ subs[1] = 1 /\ subs[3] = 1
    /\ Len(nodes[sink].in) = 2
    /\ Outcome(g, sink, subs[2]).Err # Nil
    /\ sent[OutCh] = 3
    /\ chans[OutCh].buf = <<Outcome(g, sink, subs[3])>>
    /\ cpc = "waiting" /\ pending = 0

----------------------------------------------------------------------------
\* The network between two calls.

\* No channel holds an either.
PipesEmpty == \A c \in DOMAIN chans : chans[c].buf = <<>>

\* Worker l waits for the first either of a round: it is at the head of its
\* receive loop and its first inbound channel is open and empty.
BlockedOnFirstInbound(l) ==
    /\ w[l].pc = "recv" /\ w[l].i = 1
    /\ Len(nodes[l].in) >= 1
    /\ chans[nodes[l].in[1]].buf = <<>> /\ ~chans[nodes[l].in[1]].closed

\* C24: quiescence at return: when a call has returned and no other call has
\* been made since, in, out and every internal channel are empty, and unless
\* the network has been torn down every worker is blocked on its first
\* inbound channel.
C24_QuiescentAtReturn ==
    Returned
    => /\ PipesEmpty
       /\ ~torn => \A l \in DOMAIN w : BlockedOnFirstInbound(l)

----------------------------------------------------------------------------
\* Teardown during a call.

\* A call is waiting for its result and Collapse has been called since the
\* call sent its argument (a call made after Collapse panics on the send).
TornInFlight == mode = "run" /\ cpc = "waiting" /\ torn

\* C25: when Collapse is called after a call has sent its argument and
\* before it has its result, the call still returns the outcome of its
\* argument: no send or close panics, the exit stage closes out only after
\* it has put the result there, the call reads that result and not the zero
\* either of the closed channel, and it does return.
C25_TeardownInFlightStillReturns ==
    /\ [](TornInFlight
            => /\ phase # "panicked"
               /\ chans[OutCh].closed
                     => chans[OutCh].buf = <<Outcome(g, sink, carg[1])>>)
    /\ [][(TornInFlight /\ cpc' = "done")
             => cres' = Outcome(g, sink, carg[1])]_vars
    /\ TornInFlight ~> Returned

\* C25 witness: Collapse was called during a call whose computation fails
\* in no stage, every worker has since returned, out is closed, and the
\* result of the call is in out for the caller to read.
C25_Witness ==
    /\ TornInFlight
    /\ \A l \in DOMAIN w : w[l].pc = "returned"
    /\ chans[OutCh].closed
    /\ chans[OutCh].buf = <<Outcome(g, sink, carg[1])>>
    /\ Outcome(g, sink, carg[1]).Err = Nil

----------------------------------------------------------------------------
\* What an accepted graph guarantees to Run.

\* NewExecutionGraph has returned a graph and no error.
Accepted == NewExecutionGraphReturned /\ err = Nil

\* The labels of the stages handed to NewExecutionGraph, the two terminal
\* stages included.
GivenLabels == {Input, sink} \cup {stages[i].label : i \in DOMAIN stages}

\* The stages were given distinct labels, none of them a terminal label, and
\* one of them, or the final stage, requires a label that names no stage.
RequiresUnknownLabel ==
    /\ ~Collides(stages)
    /\ \A i, j \in DOMAIN stages : stages[i].label = stages[j].label => i = j
    /\ \/ \E p \in Range(final.requires) : p \notin GivenLabels
       \/ \E i \in DOMAIN stages :
             \E p \in Range(stages[i].requires) : p \notin GivenLabels

\* The wiring of Run on stage map sm under iteration order ord reads no
\* missing node, and binding in and out afterwards replaces two empty
\* lists: every channel made is the inbound channel of its stage and an
\* outbound channel of the stage it requires.
WiringLosesNoPipe(sm, ord) ==
    /\ wireIn(sm, Input) = <<>>
    /\ wireOut(sm, ord, 1, sink) = <<>>
    /\ \A n \in DOMAIN sm : \A k \in 1..Len(sm[n].requires) :
          /\ sm[n].requires[k] \in DOMAIN sm
          /\ Pipe(n, k) \in Range(wire(sm, ord)[n].in)
          /\ Pipe(n, k) \in Range(wire(sm, ord)[sm[n].requires[k]].out)

\* C26: in every graph NewExecutionGraph accepts, every required label is
\* the label of a stage of the graph, the entry stage requires nothing and no
\* stage requires the exit stage, so that the wiring of Run finds every node
\* it looks up and binding in and out discards no channel; and a set of
\* stages one of which requires a label that names no stage is rejected.
C26_AcceptedGraphIsClosed ==
    /\ Accepted
          => /\ \A n \in DOMAIN stageMap :
                   Range(stageMap[n].requires) \subseteq DOMAIN stageMap \ {sink}
             /\ stageMap[Input].requires = <<>>
             /\ \A ord \in Perms(DOMAIN stageMap) :
                   WiringLosesNoPipe(stageMap, ord)
    /\ (NewExecutionGraphReturned /\ RequiresUnknownLabel) => err # Nil

\* C26 witness: a graph with two stages besides the terminal ones has been
\* accepted; one of the stages requires the other.
C26_Witness ==
    /\ Accepted
    /\ Cardinality(DOMAIN stageMap) = 4
    /\ \E n \in DOMAIN stageMap \ {Input, sink} :
          Range(stageMap[n].requires) \ {Input} # {}

\* A set of stages that names an unknown label has been rejected.
RejectedUnknownLabel ==
    NewExecutionGraphReturned /\ RequiresUnknownLabel /\ err # Nil

====
